---- MODULE Spec2Model ----
(***************************************************************************)
(* Model of DataFrameChangeTracker (src/src/DataFrameChangeTracker.py; the *)
(* older copy src/DataFrameChangeTracker.py has the same compare_df and    *)
(* the same reporting code inlined in its decorator).                      *)
(*                                                                         *)
(* A DataFrame is a record                                                 *)
(*    index   : the row labels, a sequence without repetition              *)
(*    columns : the set of column names                                    *)
(*    dtype   : column name -> datatype label                              *)
(*    data    : column name -> (row label -> value)                        *)
(* The frames enumerated here have their row labels in ascending order, a  *)
(* column "name" of strings (dtype object) and a numeric column "value"    *)
(* (int64 or float64). Cell values are tokens: "1" and "2" are numbers     *)
(* (the same number in an int64 and in a float64 column) and "nan" is the  *)
(* missing value, which only a float64 column holds.                       *)
(***************************************************************************)
EXTENDS Integers, Sequences, FiniteSets, TLC

MaxRows == 2

Labels == 0 .. (MaxRows - 1)

Names == {"name", "value"}

NaN == "nan"

DtypesOf(c) == IF c = "name" THEN {"object"} ELSE {"int64", "float64"}

ValuesOf(d) ==
    CASE d = "object"  -> {"Alice", "Bob"}
      [] d = "int64"   -> {"1", "2"}
      [] d = "float64" -> {"1", NaN}

NoTable == [table |-> FALSE]

None == [none |-> TRUE]

(***************************************************************************)
(* Helpers on sets and sequences.                                          *)
(***************************************************************************)
Elems(s) == {s[i] : i \in 1 .. Len(s)}

Min(S) == CHOOSE m \in S : \A x \in S : m <= x

RECURSIVE SortedSeq(_)
SortedSeq(S) == IF S = {} THEN <<>>
                ELSE <<Min(S)>> \o SortedSeq(S \ {Min(S)})

\* list(some_set): the elements of a set in an order the hash table decides.
ListOfSet(S) ==
    {s \in [1 .. Cardinality(S) -> S] : \A x \in S : \E i \in 1 .. Cardinality(S) : s[i] = x}

RECURSIVE SelectByLabel(_, _)
SelectByLabel(s, S) ==
    IF s = <<>> THEN <<>>
    ELSE (IF Head(s) \in S THEN <<Head(s)>> ELSE <<>>) \o SelectByLabel(Tail(s), S)

(***************************************************************************)
(* The DataFrames of the model.                                            *)
(***************************************************************************)
Indexes == {SortedSeq(S) : S \in SUBSET Labels}

ColumnsOver(idx, c) ==
    UNION {{[dtype |-> d, vals |-> v] : v \in [Elems(idx) -> ValuesOf(d)]}
           : d \in DtypesOf(c)}

MkFrame(idx, ns, col) ==
    [index   |-> idx,
     columns |-> ns,
     dtype   |-> [c \in ns |-> col[c].dtype],
     data    |-> [c \in ns |-> col[c].vals]]

Frames ==
    UNION {UNION {{MkFrame(idx, ns, col)
                   : col \in {f \in [ns -> UNION {ColumnsOver(idx, c) : c \in ns}]
                                : \A c \in ns : f[c] \in ColumnsOver(idx, c)}}
                  : ns \in SUBSET Names}
           : idx \in Indexes}

\* len(df)
LenDf(df) == Len(df.index)

(***************************************************************************)
(* pandas operations used by the tracker.                                  *)
(***************************************************************************)
\* The elementwise != of two values: a missing value differs from everything,
\* itself included.
ValueNe(x, y) == x = NaN \/ y = NaN \/ x # y

\* Index.intersection: the labels of both, in the order of the left index.
IndexIntersection(left, right) == SelectByLabel(left, Elems(right))

\* Series.equals done with the elementwise comparison: a missing value is not
\* equal to itself.
SeriesEqualsElementwise(b, a, col) ==
    /\ b.index = a.index
    /\ b.dtype[col] = a.dtype[col]
    /\ \A i \in Elems(b.index) : ~ValueNe(b.data[col][i], a.data[col][i])

\* Series.equals done on the shared row labels only.
SeriesEqualsShared(b, a, col) ==
    /\ b.dtype[col] = a.dtype[col]
    /\ \A i \in Elems(IndexIntersection(b.index, a.index)) :
          b.data[col][i] = a.data[col][i]

\* Series.equals: same index, same dtype, and equal values position by
\* position, two missing values at the same position counting as equal.
SeriesEquals(b, a, col) ==
    /\ b.index = a.index
    /\ b.dtype[col] = a.dtype[col]
    /\ \A i \in Elems(b.index) : b.data[col][i] = a.data[col][i]

(***************************************************************************)
(* compare_df                                                              *)
(***************************************************************************)
RowChanges(before, after) ==
    [before |-> before, after |-> after, difference |-> after - before]

\* The set difference taken the wrong way round.
AddedColumnsSwapped(b, a) == b.columns \ a.columns

AddedColumns(b, a) == a.columns \ b.columns

RemovedColumns(b, a) == b.columns \ a.columns

CommonCols(b, a) == b.columns \cap a.columns

\* The datatype test left out: every common column is recorded.
SchemaChangedAll(b, a) == CommonCols(b, a)

SchemaChanged(b, a) == {c \in CommonCols(b, a) : b.dtype[c] # a.dtype[c]}

SchemaChanges(b, a) ==
    [c \in SchemaChanged(b, a) |-> [before |-> b.dtype[c], after |-> a.dtype[c]]]

ContentChanged(b, a) == {c \in CommonCols(b, a) : ~SeriesEquals(b, a, c)}

\* The columns appended to columns.modified, in the order the loop over the
\* set common_cols visits them.
ModifiedInOrder(order, b, a) == SelectByLabel(order, ContentChanged(b, a))

\* Every report compare_df can return: the three lists made of a set and the
\* loop over common_cols take whatever order the hash tables give.
CompareDf(b, a) ==
    {[rows           |-> RowChanges(LenDf(b), LenDf(a)),
      columns        |-> [added    |-> add,
                          removed  |-> rem,
                          modified |-> ModifiedInOrder(order, b, a)],
      schema_changes |-> SchemaChanges(b, a),
      content_changes |-> cc]
     : add \in ListOfSet(AddedColumns(b, a)),
       rem \in ListOfSet(RemovedColumns(b, a)),
       order \in ListOfSet(CommonCols(b, a)),
       cc \in ListOfSet(ContentChanged(b, a))}

(***************************************************************************)
(* The reporter: _print_content_changes and analyze_dataframe_changes.     *)
(* What is printed is kept as a sequence of display events.                *)
(***************************************************************************)
\* changed_mask: the common row labels where the two values differ under !=.
ChangedMask(b, a, col) ==
    {i \in Elems(IndexIntersection(b.index, a.index)) :
        ValueNe(b.data[col][i], a.data[col][i])}

\* df.loc[changed_mask, col] with a boolean Series as the row indexer: pandas
\* raises IndexingError (unalignable boolean Series) when the frame has a row
\* label that the mask's index lacks.
LocMaskRaises(df, maskIndex) == ~(Elems(df.index) \subseteq Elems(maskIndex))

\* The rows of the "comparison" table handed to tabulate.
ComparisonRows(b, a, col) ==
    {[index   |-> i,
      column  |-> col,
      before  |-> b.data[col][i],
      after   |-> a.data[col][i],
      context |-> IF "name" \in b.columns THEN b.data["name"][i] ELSE "-"]
     : i \in ChangedMask(b, a, col)}

\* One pass of the loop body for a column: the events printed and whether the
\* body raised.
PrintColumn(b, a, col) ==
    LET common == IndexIntersection(b.index, a.index)
    IN  IF ChangedMask(b, a, col) = {}
        THEN [out |-> <<>>, raised |-> FALSE]
        ELSE IF LocMaskRaises(b, common) \/ LocMaskRaises(a, common)
             THEN [out |-> <<[kind |-> "changes_in", column |-> col]>>,
                   raised |-> TRUE]
             ELSE [out |-> <<[kind |-> "changes_in", column |-> col],
                             [kind |-> "table", column |-> col,
                              rows |-> ComparisonRows(b, a, col)]>>,
                   raised |-> FALSE]

RECURSIVE PrintContentChanges(_, _, _)
PrintContentChanges(b, a, content_changes) ==
    IF content_changes = <<>> THEN [out |-> <<>>, raised |-> FALSE]
    ELSE LET first == PrintColumn(b, a, Head(content_changes))
         IN  IF first.raised THEN first
             ELSE LET rest == PrintContentChanges(b, a, Tail(content_changes))
                  IN  [out |-> first.out \o rest.out, raised |-> rest.raised]

\* analyze_dataframe_changes for a report of compare_df: what it prints,
\* whether it raised, and the value it hands back (the function has no return
\* statement, so it hands back None).
AnalyzeDataframeChanges(b, a, report, function_name) ==
    LET header == IF function_name # "" 
                  THEN <<[kind |-> "function", name |-> function_name]>>
                  ELSE <<>>
        rowsEv == IF report.rows.difference # 0
                  THEN <<[kind |-> "rows", before |-> report.rows.before,
                          after |-> report.rows.after,
                          difference |-> report.rows.difference]>>
                  ELSE <<[kind |-> "no_row_changes"]>>
        body   == IF report.content_changes # <<>>
                  THEN LET p == PrintContentChanges(b, a, report.content_changes)
                       IN  [out |-> <<[kind |-> "content_changes",
                                       columns |-> report.content_changes]>> \o p.out,
                            raised |-> p.raised]
                  ELSE [out |-> <<>>, raised |-> FALSE]
    IN  [out |-> header \o rowsEv \o body.out,
         raised |-> body.raised,
         ret |-> None]

(***************************************************************************)
(* State.                                                                  *)
(***************************************************************************)
VARIABLES
    pc,           \* where the caller (or the decorator's wrapper) stands
    args,         \* the positional arguments: the caller's objects, as they are now
    kwargs,       \* the keyword arguments' values, in their order
    df_before,    \* the 'before' frame of the comparison
    df_after,     \* the 'after' frame of the comparison (the wrapper's result)
    changes,      \* the report of compare_df(df_before, df_after)
    changes_rev,  \* the report of compare_df(df_after, df_before)
    out,          \* the display events printed so far
    raised,       \* an exception left the reporter
    ret,          \* the value handed back to the caller
    entry         \* the arguments as they were when the wrapper was entered

vars ==
    <<pc, args, kwargs, df_before, df_after, changes, changes_rev, out, raised, ret, entry>>

Unset == [unset |-> TRUE]

(***************************************************************************)
(* Direct use of the static methods on two frames, as the tests do.        *)
(***************************************************************************)
Init ==
    /\ pc = "start"
    /\ args = <<>>
    /\ kwargs = <<>>
    /\ df_before \in Frames
    /\ df_after \in Frames
    /\ changes = None
    /\ changes_rev = None
    /\ out = <<>>
    /\ raised = FALSE
    /\ ret = Unset
    /\ entry = [args |-> args, kwargs |-> kwargs]

\* changes = DataFrameChangeTracker.compare_df(df_before, df_after)
CallCompareDf ==
    /\ pc = "start"
    /\ \E r \in CompareDf(df_before, df_after) :
          /\ changes' = r
          /\ ret' = r
    /\ pc' = "compared"
    /\ UNCHANGED <<args, kwargs, entry, df_before, df_after, changes_rev, out, raised>>

\* ... followed by compare_df(df_after, df_before)
CallCompareDfSwapped ==
    /\ pc = "compared"
    /\ changes_rev' \in CompareDf(df_after, df_before)
    /\ pc' = "swapped"
    /\ UNCHANGED <<args, kwargs, entry, df_before, df_after, changes, out, raised, ret>>

\* changes = DataFrameChangeTracker.analyze_dataframe_changes(df_before, df_after)
CallAnalyze ==
    /\ pc = "start"
    /\ \E r \in CompareDf(df_before, df_after) :
          LET an == AnalyzeDataframeChanges(df_before, df_after, r, "")
          IN  /\ changes' = r
              /\ out' = an.out
              /\ raised' = an.raised
              /\ ret' = IF an.raised THEN Unset ELSE an.ret
              /\ pc' = IF an.raised THEN "raised" ELSE "analyzed"
    /\ UNCHANGED <<args, kwargs, entry, df_before, df_after, changes_rev>>

Next == CallCompareDf \/ CallCompareDfSwapped \/ CallAnalyze

Spec == Init /\ [][Next]_vars

(***************************************************************************)
(* The decorator track_dataframe_changes: its wrapper, step by step.       *)
(***************************************************************************)
IsTable(x) == x # NoTable /\ x # None /\ x # Unset

\* _find_dataframe_arg: a copy of the first DataFrame among the positional
\* arguments, else among the keyword arguments' values, else None.
FindDataframeArg(as, kws) ==
    LET all == as \o kws
        hits == {i \in 1 .. Len(all) : IsTable(all[i])}
    IN  IF hits = {} THEN None ELSE all[Min(hits)]

\* What a wrapped operation may do to a frame.
Ops == {"same", "drop_row", "set_cell", "drop_col", "add_col", "as_float"}

Front(s) == SubSeq(s, 1, Len(s) - 1)

ApplyOp(op, f) ==
    CASE op = "drop_row" /\ f.index # <<>> ->
            [f EXCEPT !.index = Front(f.index),
                      !.data = [c \in f.columns |->
                                   [i \in Elems(Front(f.index)) |-> f.data[c][i]]]]
      [] op = "set_cell" /\ f.index # <<>> /\ "value" \in f.columns ->
            [f EXCEPT !.data["value"][Head(f.index)] = IF @ = "1" THEN "2" ELSE "1"]
      [] op = "drop_col" /\ "value" \in f.columns ->
            [f EXCEPT !.columns = f.columns \ {"value"},
                      !.dtype = [c \in f.columns \ {"value"} |-> f.dtype[c]],
                      !.data = [c \in f.columns \ {"value"} |-> f.data[c]]]
      [] op = "add_col" /\ "name" \notin f.columns ->
            [f EXCEPT !.columns = f.columns \cup {"name"},
                      !.dtype = [c \in f.columns \cup {"name"} |->
                                    IF c = "name" THEN "object" ELSE f.dtype[c]],
                      !.data = [c \in f.columns \cup {"name"} |->
                                   IF c = "name" THEN [i \in Elems(f.index) |-> "Alice"]
                                   ELSE f.data[c]]]
      [] op = "as_float" /\ "value" \in f.columns ->
            [f EXCEPT !.dtype["value"] = "float64"]
      [] OTHER -> f

\* The frames handed to a wrapped operation: every row label, one int64 column.
ArgFrames ==
    {f \in Frames : /\ f.index = SortedSeq(Labels) 
                    /\ f.columns = {"value"} 
                    /\ f.dtype["value"] = "int64"}

ArgValues == ArgFrames \cup {NoTable}

MaxArgs == 2

MaxKwargs == 1

SeqsUpTo(S, n) == UNION {[1 .. k -> S] : k \in 0 .. n}

InitWrapper ==
    /\ pc = "w_start"
    /\ args \in SeqsUpTo(ArgValues, MaxArgs)
    /\ kwargs \in SeqsUpTo(ArgValues, MaxKwargs)
    /\ entry = [args |-> args, kwargs |-> kwargs]
    /\ df_before = Unset
    /\ df_after = Unset
    /\ changes = None
    /\ changes_rev = None
    /\ out = <<>>
    /\ raised = FALSE
    /\ ret = Unset

\* df_before = DataFrameChangeTracker._find_dataframe_arg(*args, **kwargs)
WrapperFind ==
    /\ pc = "w_start"
    /\ df_before' = FindDataframeArg(args, kwargs)
    /\ pc' = "w_call"
    /\ UNCHANGED <<args, kwargs, entry, df_after, changes, changes_rev, out, raised, ret>>

\* result = func(*args, **kwargs): the operation may change its table
\* arguments in place, and hands back one of them, a changed copy of one of
\* them, a new frame, or something that is no table.
WrapperCallFunc ==
    /\ pc = "w_call"
    /\ \E m \in Ops :
          LET as2  == [i \in 1 .. Len(args) |->
                          IF IsTable(args[i]) THEN ApplyOp(m, args[i]) ELSE args[i]]
              kws2 == [i \in 1 .. Len(kwargs) |->
                          IF IsTable(kwargs[i]) THEN ApplyOp(m, kwargs[i]) ELSE kwargs[i]]
              srcs == {x \in Elems(as2 \o kws2) : IsTable(x)}
          IN  /\ args' = as2
              /\ kwargs' = kws2
              /\ \/ df_after' = NoTable
                 \/ \E x \in srcs, r \in Ops : df_after' = ApplyOp(r, x)
                 \/ srcs = {} /\ df_after' \in ArgFrames
    /\ pc' = "w_check"
    /\ UNCHANGED <<entry, df_before, changes, changes_rev, out, raised, ret>>

\* if isinstance(result, pd.DataFrame) and df_before is not None:
\*     DataFrameChangeTracker.analyze_dataframe_changes(df_before, result, func.__name__)
WrapperAnalyze ==
    /\ pc = "w_check"
    /\ IsTable(df_after) /\ df_before # None
    /\ \E r \in CompareDf(df_before, df_after) :
          LET an == AnalyzeDataframeChanges(df_before, df_after, r, "func")
          IN  /\ changes' = r
              /\ out' = an.out
              /\ raised' = an.raised
              /\ pc' = IF an.raised THEN "raised" ELSE "w_return"
    /\ UNCHANGED <<args, kwargs, entry, df_before, df_after, changes_rev, ret>>

\* ... otherwise the reporter is skipped.
WrapperSkip ==
    /\ pc = "w_check"
    /\ ~(IsTable(df_after) /\ df_before # None)
    /\ pc' = "w_return"
    /\ UNCHANGED <<args, kwargs, entry, df_before, df_after, changes, changes_rev, out,
                   raised, ret>>

\* return result
WrapperReturn ==
    /\ pc = "w_return"
    /\ ret' = df_after
    /\ pc' = "w_done"
    /\ UNCHANGED <<args, kwargs, entry, df_before, df_after, changes, changes_rev, out,
                   raised>>

NextWrapper ==
    WrapperFind \/ WrapperCallFunc \/ WrapperAnalyze \/ WrapperSkip \/ WrapperReturn

SpecWrapper == InitWrapper /\ [][NextWrapper]_vars

(***************************************************************************)
(* Properties.                                                             *)
(***************************************************************************)
Compared == changes # None

Reported == pc \in {"analyzed", "raised"}

SharedLabels == Elems(IndexIntersection(df_before.index, df_after.index))

\* The two values are equal, a missing value being equal to a missing value.
SameValue(x, y) == x = y

EmptyReport(r) ==
    /\ r.rows.difference = 0
    /\ r.columns.added = <<>>
    /\ r.columns.removed = <<>>
    /\ r.columns.modified = <<>>
    /\ DOMAIN r.schema_changes = {}
    /\ r.content_changes = <<>>

\* C1: comparing a snapshot with itself gives a report with a row difference
\* of 0 and nothing added, removed, modified, schema-changed or
\* content-changed, missing values included.
C1_SelfCompareIsEmpty ==
    (Compared /\ df_before = df_after) => EmptyReport(changes)

C1_Witness ==
    /\ pc = "compared"
    /\ df_before = df_after
    /\ df_before.columns = Names
    /\ \E i \in Elems(df_before.index) : df_before.data["value"][i] = NaN

\* 'after' is 'before' with one or more rows dropped and nothing else changed.
RowsDropped(b, a) ==
    /\ a.columns = b.columns
    /\ a.dtype = b.dtype
    /\ Elems(a.index) \subseteq Elems(b.index)
    /\ Len(a.index) < Len(b.index)
    /\ a.index = SelectByLabel(b.index, Elems(a.index))
    /\ \A c \in a.columns : \A i \in Elems(a.index) : SameValue(b.data[c][i], a.data[c][i])

\* C2 as stated: when rows were dropped and nothing else changed, the row
\* difference is minus the number of dropped rows and content_changes is empty.
C2_DroppedRowsNoContentChange ==
    (Compared /\ RowsDropped(df_before, df_after)) =>
        /\ changes.rows.difference = 0 - (Len(df_before.index) - Len(df_after.index))
        /\ changes.content_changes = <<>>

\* C2 as amended: when rows were dropped and nothing else changed, the row
\* difference is minus the number of dropped rows, and every column of the
\* snapshots is listed in content_changes and in columns.modified (a column
\* with fewer rows is not equal under Series.equals); nothing is added,
\* removed or schema-changed.
C2_DroppedRowsMarkEveryColumn ==
    (Compared /\ RowsDropped(df_before, df_after)) =>
        /\ changes.rows.difference = 0 - (Len(df_before.index) - Len(df_after.index))
        /\ changes.rows.difference < 0
        /\ Elems(changes.content_changes) = df_before.columns
        /\ Elems(changes.columns.modified) = df_before.columns
        /\ changes.columns.added = <<>>
        /\ changes.columns.removed = <<>>
        /\ DOMAIN changes.schema_changes = {}

C2_Witness ==
    /\ pc = "compared"
    /\ RowsDropped(df_before, df_after)
    /\ df_after.index # <<>>
    /\ df_before.columns = Names
    /\ changes.rows.difference = 0 - 1

Truthy(x) == x # None /\ x # Unset /\ x # NoTable

\* C3: analyze_dataframe_changes hands its caller a truthy change result
\* whenever the two frames differ (values, a datatype, row count or columns).
C3_AnalyzeReturnsChanges ==
    (pc = "analyzed" /\ df_before # df_after) => Truthy(ret)

\* C4: the reporter raises no error for any pair of snapshots and the report
\* compare_df made for them.
C4_ReporterNeverRaises == Reported => ~raised

\* C5: the wrapper copies the first table argument before the operation runs
\* (in-place changes do not reach 'before'), invokes the core only after the
\* operation returned and only for a found argument and a table result, and in
\* all cases ends by returning the operation's result.
C5_WrapperContract ==
    /\ (pc \in {"w_call", "w_check", "w_return", "w_done", "raised"}) =>
          df_before = FindDataframeArg(entry.args, entry.kwargs)
    /\ (pc \in {"w_start", "w_call"}) => ~Compared
    /\ Compared => (IsTable(df_after) /\ df_before # None)
    /\ (pc \in {"w_done", "raised"}) => ret = df_after

\* The 'Changes in <col>' events and table rows printed for a column.
EventsFor(col) ==
    {i \in 1 .. Len(out) : out[i].kind \in {"changes_in", "table"} /\ out[i].column = col}

RowsFor(col) ==
    UNION {{r.index : r \in out[i].rows} : i \in {j \in EventsFor(col) : out[j].kind = "table"}}

\* One snapshot has row labels the other lacks; the column is equal at every
\* shared row label.
EqualOnSharedOnly(col) ==
    /\ col \in CommonCols(df_before, df_after)
    /\ df_before.dtype[col] = df_after.dtype[col]
    /\ Elems(df_before.index) # Elems(df_after.index)
    /\ \A i \in SharedLabels : SameValue(df_before.data[col][i], df_after.data[col][i])

\* C6: a common column equal at every shared row label, one snapshot having
\* extra row labels, is listed in content_changes and columns.modified, and
\* the reporter prints nothing per row for it.
C6_IndexOnlyDifferenceIsSilent ==
    Reported =>
        \A col \in Names :
            EqualOnSharedOnly(col) =>
                /\ col \in Elems(changes.content_changes)
                /\ col \in Elems(changes.columns.modified)
                /\ EventsFor(col) = {}
                /\ ~raised

\* C7: the names added from A to B are the names removed from B to A, and
\* both are the names of B that A lacks.
C7_AddedIsRemovedOfSwap ==
    (pc = "swapped") =>
        /\ Elems(changes.columns.added) = Elems(changes_rev.columns.removed)
        /\ Elems(changes.columns.added) = df_after.columns \ df_before.columns
        /\ Len(changes.columns.added) = Cardinality(df_after.columns \ df_before.columns)

C7_Witness ==
    /\ pc = "swapped"
    /\ df_before.columns \cap df_after.columns = {}
    /\ changes.columns.added # <<>>
    /\ changes_rev.columns.added # <<>>

\* C8: content_changes lists the changed columns in the order in which they
\* were appended to columns.modified.
C8_ContentChangesInModifiedOrder ==
    Compared => changes.content_changes = changes.columns.modified

\* C9: for each column of content_changes the reporter prints a changed-cell
\* row for exactly the shared row labels where the two values differ, two
\* missing values at the same place not differing.
C9_ExactlyTheDifferingSharedRows ==
    (pc = "analyzed") =>
        \A col \in Elems(changes.content_changes) :
            RowsFor(col) =
                {i \in SharedLabels :
                    ~SameValue(df_before.data[col][i], df_after.data[col][i])}

\* C10: schema_changes has exactly the columns of both snapshots whose
\* datatype differs, each with its before and after labels; a column of only
\* one snapshot is in none of schema_changes, columns.modified and
\* content_changes.
C10_SchemaChangesExact ==
    Compared =>
        /\ \A c \in Names :
              (c \in DOMAIN changes.schema_changes) <=>
                  /\ c \in df_before.columns
                  /\ c \in df_after.columns
                  /\ df_before.dtype[c] # df_after.dtype[c]
        /\ \A c \in DOMAIN changes.schema_changes :
              changes.schema_changes[c] =
                  [before |-> df_before.dtype[c], after |-> df_after.dtype[c]]
        /\ \A c \in Names :
              (c \in df_before.columns) # (c \in df_after.columns) =>
                  /\ c \notin DOMAIN changes.schema_changes
                  /\ c \notin Elems(changes.columns.modified)
                  /\ c \notin Elems(changes.content_changes)

C10_Witness ==
    /\ pc = "compared"
    /\ "value" \in DOMAIN changes.schema_changes
    /\ "name" \in df_before.columns
    /\ "name" \notin df_after.columns
    /\ changes.columns.removed = <<"name">>

====
